---- MODULE Spec2Model ----
(***************************************************************************)
(* Model of the telephony webhook bridge of                                *)
(* src/tests/twilio/test_webhook_integration.py: the control endpoint      *)
(* POST /incoming-call (signature validation, TwiML control document),     *)
(* the liveness endpoint GET /health and the streaming endpoint            *)
(* WS /media-stream; and of the deployment test programs                   *)
(* src/tests/run_all_tests.py, src/tests/test-complete-user-journey.py     *)
(* and src/tests/test-end-to-end.py.                                       *)
(*                                                                         *)
(* Text is modelled as a sequence of one-character strings so that         *)
(* str.replace, str.lower and concatenation are computed, not assumed.     *)
(***************************************************************************)
EXTENDS Integers, Sequences, FiniteSets, TLC

VARIABLES
    TWILIO_AUTH_TOKEN,    \* module global, line 21
    TWILIO_PHONE_NUMBER,  \* module global, line 22
    SIMPLE_VOICE_TEST,    \* environment variable read at line 63
    request,              \* the HTTP request last served
    response,             \* the HTTP response to it
    stdout,               \* what the last HTTP handler printed
    conn,                 \* streaming connections: handler position, locals, traffic
    runner,               \* the run_all_tests.py process
    journey,              \* the test-complete-user-journey.py process
    validator             \* the test-end-to-end.py process

vars == <<TWILIO_AUTH_TOKEN, TWILIO_PHONE_NUMBER, SIMPLE_VOICE_TEST,
          request, response, stdout, conn, runner, journey, validator>>

config == <<TWILIO_AUTH_TOKEN, TWILIO_PHONE_NUMBER, SIMPLE_VOICE_TEST>>

server == <<config, request, response, stdout, conn>>

programs == <<runner, journey, validator>>

----------------------------------------------------------------------------
(* Bounds of the model *)

MaxBodyLen == 2

MaxEvents == 4

----------------------------------------------------------------------------
(* Optional values: os.getenv and headers.get return a string or nothing *)

None == [some |-> FALSE, v |-> <<>>]

Some(s) == [some |-> TRUE, v |-> s]

\* Python truthiness of an optional string: None and "" are falsy
Truthy(o) == o.some /\ o.v # <<>>

----------------------------------------------------------------------------
(* Text *)

StartsWith(s, p) == Len(s) >= Len(p) /\ SubSeq(s, 1, Len(p)) = p

RECURSIVE Replace(_, _, _)
\* str.replace(old, new): every non-overlapping occurrence, left to right
Replace(s, old, new) ==
    IF Len(s) < Len(old) \/ old = <<>> THEN s
    ELSE IF StartsWith(s, old)
         THEN new \o Replace(SubSeq(s, Len(old) + 1, Len(s)), old, new)
         ELSE <<Head(s)>> \o Replace(Tail(s), old, new)

LowerChar(c) ==
    CASE c = "T" -> "t"
      [] c = "R" -> "r"
      [] c = "U" -> "u"
      [] c = "E" -> "e"
      [] c = "F" -> "f"
      [] c = "A" -> "a"
      [] c = "L" -> "l"
      [] c = "S" -> "s"
      [] OTHER -> c

\* str.lower()
Lower(s) == [i \in 1..Len(s) |-> LowerChar(s[i])]

Alphabet ==
    <<"h", "t", "p", "s", ":", "/", "w", "a", "b", "i", "n", "c", "o",
      "m", "g", "-", "l", "k", "q", "e", "d", "r", ".", "x", "y", "=">>

Code(c) == CHOOSE i \in 1..Len(Alphabet) : Alphabet[i] = c

----------------------------------------------------------------------------
(* The carrier's signature scheme (twilio.request_validator)               *)

RECURSIVE Digest(_, _)
\* a keyed digest of a text: a polynomial hash standing for HMAC-SHA1
Digest(h, s) ==
    IF s = <<>> THEN h
    ELSE Digest((h * 31 + Code(Head(s))) % 251, Tail(s))

\* the digest as header text (two digits standing for base64)
Encode(n) == <<n \div 16, n % 16>>

compute_signature(token, url, body) ==
    Encode(Digest(Digest(7, token), url \o body))

RequestValidator_validate(token, url, body, signature) ==
    signature = compute_signature(token, url, body)

----------------------------------------------------------------------------
(* Requests *)

Schemes == {<<"h", "t", "t", "p">>, <<"h", "t", "t", "p", "s">>}

Hosts == {<<"a", ".", "i", "o">>, <<"b", ".", "i", "o">>}

BodyBytes == {"x", "y"}

RECURSIVE SeqsUpTo(_, _)
SeqsUpTo(S, n) ==
    IF n = 0 THEN {<<>>}
    ELSE LET shorter == SeqsUpTo(S, n - 1)
         IN  shorter \cup {Append(s, x) : s \in shorter, x \in S}

Bodies == SeqsUpTo(BodyBytes, MaxBodyLen)

Tokens == {None, Some(<<>>), Some(<<"k">>), Some(<<"q">>)}

Phones == {None, Some(<<>>), Some(<<"+", "1">>)}

Flags == {None,
          Some(<<"t", "r", "u", "e">>),
          Some(<<"T", "r", "u", "e">>),
          Some(<<"T", "R", "U", "E">>),
          Some(<<"f", "a", "l", "s", "e">>),
          Some(<<"1">>)}

\* str(request.url)
url(req) == req.scheme \o <<":", "/", "/">> \o req.host
            \o <<"/", "i", "n", "c", "o", "m", "i", "n", "g", "-", "c", "a", "l", "l">>

\* str(request.base_url)
base_url(req) == req.scheme \o <<":", "/", "/">> \o req.host \o <<"/">>

BadSignature == <<0, 0, 0>>

\* the signature headers a sender may attach: none, an empty one, a wrong one,
\* and the signatures of this URL with any body under any secret
Signatures(scheme, host) ==
    {None, Some(<<>>), Some(BadSignature)} \cup
    {Some(compute_signature(t.v, url([scheme |-> scheme, host |-> host]), b)) :
        t \in {t \in Tokens : Truthy(t)}, b \in Bodies}

Requests ==
    UNION {UNION {[scheme : {s}, host : {h}, body : Bodies, signature : Signatures(s, h)] :
                     h \in Hosts} : s \in Schemes}

NoRequest == [scheme |-> <<>>, host |-> <<>>, body |-> <<>>, signature |-> None]

----------------------------------------------------------------------------
(* POST /incoming-call *)

MaxCallSeconds == 3600

NoHealth == [status |-> "", twilio_configured |-> FALSE, phone_number |-> None]

NoResponse == [endpoint |-> "", status |-> 0, media_type |-> "", doc |-> <<>>,
               json |-> NoHealth]

Say(text) == [verb |-> "Say", text |-> text, url |-> <<>>, length |-> 0]

StartStream(u) == [verb |-> "Start", text |-> "", url |-> u, length |-> 0]

Pause(n) == [verb |-> "Pause", text |-> "", url |-> <<>>, length |-> n]

\* request.headers.get("X-Twilio-Signature", "")
SignatureHeader(req) == IF req.signature.some THEN req.signature.v ELSE <<>>

validate_twilio_request_AcceptsAll(token, req) == TRUE

validate_twilio_request_OmitsBody(token, req) ==
    IF ~Truthy(token) THEN TRUE
    ELSE RequestValidator_validate(token.v, url(req), <<>>, SignatureHeader(req))

validate_twilio_request_NeverSkips(token, req) ==
    RequestValidator_validate(token.v, url(req), req.body, SignatureHeader(req))

validate_twilio_request(token, req) ==
    IF ~Truthy(token) THEN TRUE
    ELSE RequestValidator_validate(token.v, url(req), req.body, SignatureHeader(req))

validate_prints_Silent(token) == <<>>

\* what validate_twilio_request prints
validate_prints(token) ==
    IF ~Truthy(token) THEN <<"skipping validation">> ELSE <<>>

simple_voice_CaseSensitive(flag) == flag = Some(<<"t", "r", "u", "e">>)

\* os.getenv("SIMPLE_VOICE_TEST", "false").lower() == "true"
simple_voice(flag) ==
    Lower(IF flag.some THEN flag.v ELSE <<"f", "a", "l", "s", "e">>)
        = <<"t", "r", "u", "e">>

websocket_url_HardCoded(req) ==
    <<"w", "s", "s", ":", "/", "/">> \o <<"a", ".", "i", "o">>
        \o <<"/", "m", "e", "d", "i", "a", "-", "s", "t", "r", "e", "a", "m">>

websocket_url(req) ==
    Replace(Replace(base_url(req),
                    <<"h", "t", "t", "p", ":", "/", "/">>, <<"w", "s", ":", "/", "/">>),
            <<"h", "t", "t", "p", "s", ":", "/", "/">>, <<"w", "s", "s", ":", "/", "/">>)
        \o <<"m", "e", "d", "i", "a", "-", "s", "t", "r", "e", "a", "m">>

simple_voice_twiml_WithStream(req) ==
    <<Say("Hello! This is your Pipecat AI agent."),
      StartStream(websocket_url(req)),
      Say("You can now integrate this with your voice AI system.")>>

simple_voice_twiml(req) ==
    <<Say("Hello! This is your Pipecat AI agent."),
      Say("You can now integrate this with your voice AI system.")>>

media_stream_twiml_PauseFirst(req) ==
    <<Say("Connecting you to the AI agent."),
      Pause(MaxCallSeconds),
      StartStream(websocket_url(req))>>

media_stream_twiml(req) ==
    <<Say("Connecting you to the AI agent."),
      StartStream(websocket_url(req)),
      Pause(MaxCallSeconds)>>

Forbidden == [NoResponse EXCEPT !.endpoint = "/incoming-call", !.status = 403]

Xml(doc) == [NoResponse EXCEPT !.endpoint = "/incoming-call", !.status = 200,
                               !.media_type = "application/xml", !.doc = doc]

handle_incoming_call(token, flag, req) ==
    IF ~validate_twilio_request(token, req) THEN Forbidden
    ELSE IF simple_voice(flag) THEN Xml(simple_voice_twiml(req))
    ELSE Xml(media_stream_twiml(req))

handle_incoming_call_prints(token, flag, req) ==
    <<"Incoming call received">> \o validate_prints(token) \o
    (IF ~validate_twilio_request(token, req)
     THEN <<"Invalid Twilio signature">>
     ELSE <<"TwiML response generated">>)

IncomingCallOf_ForgetsToken(req) ==
    /\ response = NoResponse
    /\ request' = req
    /\ response' = handle_incoming_call(TWILIO_AUTH_TOKEN, SIMPLE_VOICE_TEST, req)
    /\ stdout' = handle_incoming_call_prints(TWILIO_AUTH_TOKEN, SIMPLE_VOICE_TEST, req)
    /\ TWILIO_AUTH_TOKEN' = None
    /\ UNCHANGED <<TWILIO_PHONE_NUMBER, SIMPLE_VOICE_TEST, conn, programs>>

\* one HTTP exchange per behaviour: the handlers keep no state between requests
IncomingCallOf(req) ==
    /\ response = NoResponse
    /\ request' = req
    /\ response' = handle_incoming_call(TWILIO_AUTH_TOKEN, SIMPLE_VOICE_TEST, req)
    /\ stdout' = handle_incoming_call_prints(TWILIO_AUTH_TOKEN, SIMPLE_VOICE_TEST, req)
    /\ UNCHANGED <<config, conn, programs>>

IncomingCall == \E req \in Requests : IncomingCallOf(req)

----------------------------------------------------------------------------
(* GET /health *)

health_check_TokenOnly(token, phone) ==
    [NoResponse EXCEPT
        !.endpoint = "/health", !.status = 200, !.media_type = "application/json",
        !.json = [status |-> "healthy",
                  twilio_configured |-> Truthy(token),
                  phone_number |-> phone]]

health_check(token, phone) ==
    [NoResponse EXCEPT
        !.endpoint = "/health", !.status = 200, !.media_type = "application/json",
        !.json = [status |-> "healthy",
                  twilio_configured |-> Truthy(token) /\ Truthy(phone),
                  phone_number |-> phone]]

HealthCheck ==
    /\ response = NoResponse
    /\ request' = NoRequest
    /\ response' = health_check(TWILIO_AUTH_TOKEN, TWILIO_PHONE_NUMBER)
    /\ stdout' = <<>>
    /\ UNCHANGED <<config, conn, programs>>

----------------------------------------------------------------------------
(* The test programs, each a process of its own, before their first step *)

\* run_all_tests.py main(), line 67: results = []
runner_start ==
    [pc |-> "loop", env |-> <<>>, results |-> <<>>, exit_code |-> {}]

\* test-complete-user-journey.py, lines 48-54: the results dictionary
journey_start ==
    [pc |-> "service_health", steps |-> <<>>, overall_success |-> FALSE,
     waited |-> 0, polls |-> <<>>, slept |-> 0, exit_code |-> {}]

\* test-end-to-end.py, line 40: self.test_results = {}
validator_start ==
    [pc |-> "health_endpoint", test_results |-> <<>>, logged |-> <<>>,
     health_ok |-> FALSE, ready_ok |-> FALSE, room_created |-> FALSE,
     room_url |-> None, rtvi_ok |-> FALSE, room_accessible |-> FALSE,
     concurrent_ok |-> FALSE, bot_tracking_ok |-> FALSE,
     overall_success |-> FALSE, exit_code |-> {}]

NotStarted ==
    /\ runner = runner_start
    /\ journey = journey_start
    /\ validator = validator_start

----------------------------------------------------------------------------
(* The control plane: the server after start-up, serving HTTP requests *)

NoConns == [c \in {} |-> 0]

Init ==
    /\ TWILIO_AUTH_TOKEN \in Tokens
    /\ TWILIO_PHONE_NUMBER \in Phones
    /\ SIMPLE_VOICE_TEST \in Flags
    /\ request = NoRequest
    /\ response = NoResponse
    /\ stdout = <<>>
    /\ conn = NoConns
    /\ NotStarted

Next == IncomingCall \/ HealthCheck

Spec == Init /\ [][Next]_vars

----------------------------------------------------------------------------
(* WS /media-stream: one handler coroutine per connection *)

Absent == "absent"

Sids == {"S1", "S2"}

Payloads == {"p1", "p2"}

Msg(wf, event, startSid, streamSid, payload) ==
    [wf |-> wf, event |-> event, startSid |-> startSid,
     streamSid |-> streamSid, payload |-> payload]

\* text that json.loads rejects
NotJson == Msg("notjson", Absent, Absent, Absent, Absent)

\* JSON that is not an object: data.get raises
NonObject == Msg("nonobject", Absent, Absent, Absent, Absent)

\* the connection closing under receive_text
Disconnected == Msg("disconnect", Absent, Absent, Absent, Absent)

Event(e) == Msg("object", e, Absent, Absent, Absent)

StartEvent(sid) == Msg("object", "start", sid, Absent, Absent)

MediaEvent(sid, payload) == Msg("object", "media", Absent, sid, payload)

KnownEvents == {"connected", "start", "media", "stop"}

\* what the carrier, or anyone else, may send on the connection
Inbound ==
    {NotJson, NonObject, Event("connected"), Event("stop"), Event("mark"), Event(Absent)}
    \cup {StartEvent(sid) : sid \in Sids}
    \cup {MediaEvent(sid, p) : sid \in Sids, p \in Payloads}

In(m) == [dir |-> "in", msg |-> m]

Out(m) == [dir |-> "out", msg |-> m]

\* a connection before websocket.accept()
Idle == [pc |-> "idle", stream_sid |-> "unbound", exit |-> "none",
         pending |-> <<>>, log |-> <<>>]

\* receive_text returned m
received(s, m) == [s EXCEPT !.log = Append(@, In(m))]

\* the except branch, then finally (lines 135-138)
on_error(s, m) == [received(s, m) EXCEPT !.pc = "closed", !.exit = "error"]

\* lines 108-109
on_connected(s, m) == received(s, m)

\* lines 111-114
on_start(s, m) == [received(s, m) EXCEPT !.stream_sid = m.startSid]

on_media_NoEcho(s, m) == received(s, m)

\* lines 116-128: response_audio is built and the handler awaits send_text
on_media(s, m) ==
    [received(s, m) EXCEPT
        !.pending = Append(@, MediaEvent(m.streamSid, m.payload)),
        !.pc = "sending"]

\* line 129, send_text returning: the handler goes back to receive_text
sent(s) ==
    [s EXCEPT !.pending = Tail(@),
              !.pc = IF Tail(s.pending) = <<>> THEN "open" ELSE "sending"]

on_media_send_fails_StaysOpen(s) == [s EXCEPT !.pc = "open"]

\* line 129, send_text raising: except, finally, the locals are gone
on_media_send_fails(s) ==
    [s EXCEPT !.pc = "closed", !.exit = "error", !.pending = <<>>]

on_stop_Resets(s, m) == [received(s, m) EXCEPT !.stream_sid = "unbound"]

\* lines 131-133
on_stop(s, m) == [received(s, m) EXCEPT !.pc = "closed", !.exit = "stop"]

on_unknown_Breaks(s, m) == on_stop(s, m)

\* no branch of the if/elif chain matches
on_unknown(s, m) == received(s, m)

\* one iteration of the while loop (lines 101-133)
handle_message(s, m) ==
    IF m.wf # "object" THEN on_error(s, m)
    ELSE CASE m.event = "connected" -> on_connected(s, m)
           [] m.event = "start" -> on_start(s, m)
           [] m.event = "media" -> on_media(s, m)
           [] m.event = "stop" -> on_stop(s, m)
           [] OTHER -> on_unknown(s, m)

Inputs(s) == SelectSeq(s.log, LAMBDA e : e.dir = "in")

Outputs(s) == SelectSeq(s.log, LAMBDA e : e.dir = "out")

update_Global(cs, c, s) ==
    [d \in DOMAIN cs |->
        IF d = c \/ cs[d].pc = "idle" THEN (IF d = c THEN s ELSE cs[d])
        ELSE [cs[d] EXCEPT !.pc = s.pc, !.exit = s.exit, !.stream_sid = s.stream_sid]]

\* a handler works on its own locals (websocket, data, stream_sid, payload)
update(cs, c, s) == [cs EXCEPT ![c] = s]

send_target_Other(c) ==
    IF DOMAIN conn = {c} THEN c ELSE CHOOSE d \in DOMAIN conn : d # c

\* line 129: the handler sends on the websocket it was called with
send_target(c) == c

\* a frame written to connection d
deliver(cs, d, frame) == [cs EXCEPT ![d].log = Append(@, Out(frame))]

\* line 97
Accept(c) ==
    /\ conn[c].pc = "idle"
    /\ conn' = update(conn, c, [conn[c] EXCEPT !.pc = "open"])
    /\ UNCHANGED <<config, request, response, stdout, programs>>

ReceiveStep_WhileSending(c) ==
    \E m \in Inbound :
        /\ conn[c].pc \in {"open", "sending"}
        /\ conn' = update(conn, c, handle_message(conn[c], m))
        /\ UNCHANGED <<config, request, response, stdout, programs>>

\* lines 103-133: receive_text returns only to a handler waiting in it
ReceiveStep(c) ==
    \E m \in Inbound :
        /\ conn[c].pc = "open"
        /\ conn' = update(conn, c, handle_message(conn[c], m))
        /\ UNCHANGED <<config, request, response, stdout, programs>>

Receive(c) ==
    /\ Len(Inputs(conn[c])) < MaxEvents
    /\ ReceiveStep(c)

\* line 129: the awaited send_text completes
Send(c) ==
    /\ conn[c].pc = "sending"
    /\ conn' = deliver(update(conn, c, sent(conn[c])),
                       send_target(c), Head(conn[c].pending))
    /\ UNCHANGED <<config, request, response, stdout, programs>>

\* the echo cannot be sent: the connection is already gone
SendFails(c) ==
    /\ conn[c].pc = "sending"
    /\ conn' = update(conn, c, on_media_send_fails(conn[c]))
    /\ UNCHANGED <<config, request, response, stdout, programs>>

Disconnect_Ignored(c) ==
    /\ conn[c].pc = "open"
    /\ conn' = update(conn, c, received(conn[c], Disconnected))
    /\ UNCHANGED <<config, request, response, stdout, programs>>

\* receive_text raises WebSocketDisconnect
Disconnect(c) ==
    /\ conn[c].pc = "open"
    /\ conn' = update(conn, c, on_error(conn[c], Disconnected))
    /\ UNCHANGED <<config, request, response, stdout, programs>>

StreamConns == {"c1"}

StreamInit ==
    /\ TWILIO_AUTH_TOKEN = None
    /\ TWILIO_PHONE_NUMBER = None
    /\ SIMPLE_VOICE_TEST = None
    /\ request = NoRequest
    /\ response = NoResponse
    /\ stdout = <<>>
    /\ conn = [c \in StreamConns |-> Idle]
    /\ NotStarted

StreamNext ==
    \/ \E c \in DOMAIN conn : Accept(c)
    \/ \E c \in DOMAIN conn : Receive(c)
    \/ \E c \in DOMAIN conn : Send(c)
    \/ \E c \in DOMAIN conn : SendFails(c)
    \/ \E c \in DOMAIN conn : Disconnect(c)

StreamSpec == StreamInit /\ [][StreamNext]_vars

\* the sessions that exist: the handlers that have not returned
LiveSessions == {c \in DOMAIN conn : conn[c].pc \in {"open", "sending"}}

----------------------------------------------------------------------------
(* Several connections at once, each served by its own handler coroutine,
   beside the HTTP endpoints *)

MaxMultiEvents == 3

MultiConns == {"c1", "c2"}

RECURSIVE SumOver(_, _)
SumOver(S, f) ==
    IF S = {} THEN 0
    ELSE LET x == CHOOSE x \in S : TRUE IN f[x] + SumOver(S \ {x}, f)

TotalInputs == SumOver(DOMAIN conn, [c \in DOMAIN conn |-> Len(Inputs(conn[c]))])

MultiReceive(c) ==
    /\ TotalInputs < MaxMultiEvents
    /\ ReceiveStep(c)

\* a control request arriving while calls are streaming
ProbeRequests ==
    {[scheme |-> <<"h", "t", "t", "p", "s">>, host |-> <<"a", ".", "i", "o">>,
      body |-> <<>>, signature |-> None]}

ProbeCall == \E req \in ProbeRequests : IncomingCallOf(req)

MultiInit ==
    /\ TWILIO_AUTH_TOKEN = None
    /\ TWILIO_PHONE_NUMBER = None
    /\ SIMPLE_VOICE_TEST = None
    /\ request = NoRequest
    /\ response = NoResponse
    /\ stdout = <<>>
    /\ conn = [c \in MultiConns |-> Idle]
    /\ NotStarted

MultiNext ==
    \/ \E c \in DOMAIN conn : Accept(c)
    \/ \E c \in DOMAIN conn : MultiReceive(c)
    \/ \E c \in DOMAIN conn : Send(c)
    \/ \E c \in DOMAIN conn : SendFails(c)
    \/ \E c \in DOMAIN conn : Disconnect(c)
    \/ HealthCheck
    \/ ProbeCall

MultiSpec == MultiInit /\ [][MultiNext]_vars

----------------------------------------------------------------------------
(* src/tests/run_all_tests.py: the test runner *)

\* lines 56-62
test_files ==
    <<"test-bedrock-access.py", "test-secrets-integration.py",
      "test-specific-functionality.py", "test-complete-user-journey.py",
      "test-end-to-end.py">>

\* line 27
timeout == 300

\* what the runner finds for one test file: no file, a file the interpreter
\* cannot be launched on, or a process that runs for some seconds and exits
Process(seconds, returncode) ==
    [exists |-> TRUE, starts |-> TRUE, seconds |-> seconds, returncode |-> returncode]

TestFiles ==
    {[exists |-> FALSE, starts |-> FALSE, seconds |-> 0, returncode |-> 0],
     [exists |-> TRUE, starts |-> FALSE, seconds |-> 0, returncode |-> 0]}
        \cup {Process(s, rc) : s \in {1, timeout + 1}, rc \in {0, 1}}

\* lines 23-28: a completed process, or the exception subprocess.run raises
subprocess_run(f) ==
    IF ~f.starts THEN [raises |-> "OSError", returncode |-> 0, duration |-> 0]
    ELSE IF f.seconds > timeout
         THEN [raises |-> "TimeoutExpired", returncode |-> 0, duration |-> timeout]
         ELSE [raises |-> "none", returncode |-> f.returncode, duration |-> f.seconds]

Returns(success, output, duration) ==
    [raised |-> FALSE, success |-> success, output |-> output, duration |-> duration]

Raises == [raised |-> TRUE, success |-> FALSE, output |-> "", duration |-> 0]

run_test_NoCatchAll(f) ==
    LET result == subprocess_run(f)
    IN  CASE result.raises = "none" /\ result.returncode = 0 ->
                 Returns(TRUE, "stdout", result.duration)
          [] result.raises = "none" ->
                 Returns(FALSE, "stderr", result.duration)
          [] result.raises = "TimeoutExpired" ->
                 Returns(FALSE, "Test timed out after 5 minutes", result.duration)
          [] OTHER -> Raises

\* lines 14-48
run_test(f) ==
    LET result == subprocess_run(f)
    IN  CASE result.raises = "none" /\ result.returncode = 0 ->
                 Returns(TRUE, "stdout", result.duration)
          [] result.raises = "none" ->
                 Returns(FALSE, "stderr", result.duration)
          [] result.raises = "TimeoutExpired" ->
                 Returns(FALSE, "Test timed out after 5 minutes", result.duration)
          [] OTHER -> Returns(FALSE, "str(e)", result.duration)

Result(test_file, success, duration, output) ==
    [test |-> test_file, success |-> success, duration |-> duration,
     output |-> output]

loop_body_StopsOnFailure(r, f) ==
    LET test_file == test_files[Len(r.results) + 1]
        t == run_test(f)
        seen == [r EXCEPT !.env = Append(@, f)]
    IN  IF f.exists /\ t.success
        THEN [seen EXCEPT !.results =
                 Append(@, Result(test_file, t.success, t.duration, t.output))]
        ELSE [seen EXCEPT !.pc = "exited", !.exit_code = {1},
                          !.results = Append(@, Result(test_file, FALSE, 0, "stopped"))]

\* lines 70-91: one iteration of the loop over test_files
loop_body(r, f) ==
    LET test_file == test_files[Len(r.results) + 1]
        t == run_test(f)
        seen == [r EXCEPT !.env = Append(@, f)]
    IN  IF f.exists
        THEN IF t.raised   \* uncaught: traceback and status 1
             THEN [seen EXCEPT !.pc = "exited", !.exit_code = {1}]
             ELSE [seen EXCEPT !.results =
                      Append(@, Result(test_file, t.success, t.duration, t.output))]
        ELSE [seen EXCEPT !.results =
                 Append(@, Result(test_file, FALSE, 0, "File not found"))]

\* line 100
passed(results) == Cardinality({i \in 1..Len(results) : results[i].success})

\* lines 101 and 111-116
exit_status(results) ==
    IF passed(results) = Len(results) THEN 0 ELSE 1

RunnerLoop ==
    /\ runner.pc = "loop"
    /\ Len(runner.results) < Len(test_files)
    /\ \E f \in TestFiles : runner' = loop_body(runner, f)
    /\ UNCHANGED <<server, journey, validator>>

\* lines 93-116: the summary and sys.exit
RunnerExit ==
    /\ runner.pc = "loop"
    /\ Len(runner.results) = Len(test_files)
    /\ runner' = [runner EXCEPT !.pc = "exited",
                                !.exit_code = {exit_status(runner.results)}]
    /\ UNCHANGED <<server, journey, validator>>

ServerDown ==
    /\ TWILIO_AUTH_TOKEN = None
    /\ TWILIO_PHONE_NUMBER = None
    /\ SIMPLE_VOICE_TEST = None
    /\ request = NoRequest
    /\ response = NoResponse
    /\ stdout = <<>>
    /\ conn = NoConns

\* a test program about to run, no webhook server in its process
ProgramInit == ServerDown /\ NotStarted

RunnerNext == RunnerLoop \/ RunnerExit

RunnerSpec == ProgramInit /\ [][RunnerNext]_vars

----------------------------------------------------------------------------
(* src/tests/test-complete-user-journey.py: the user-journey validation *)

\* results["steps"][step] = ok
set_step(j, step, ok) ==
    [j EXCEPT !.steps = Append(@, [step |-> step, ok |-> ok])]

\* line 113
critical_steps == {"service_health", "rtvi_connection", "nova_sonic_ready"}

\* lines 114-116: all(results["steps"].get(step, False) for step in ...)
overall_success(steps) ==
    \A step \in critical_steps :
        \E i \in 1..Len(steps) : steps[i].step = step /\ steps[i].ok

\* line 93: range(6)
WaitRounds == 6

\* a reply to GET /health: no reply at all, or a status code with a body that
\* parses or not and may carry checks.active_bots
Unreachable ==
    [error |-> TRUE, status_code |-> 0, json |-> FALSE, active_bots |-> {}]

Reply(status_code, json, bots) ==
    [error |-> FALSE, status_code |-> status_code, json |-> json,
     active_bots |-> bots]

HealthReplies ==
    {Unreachable, Reply(503, TRUE, {}), Reply(200, FALSE, {}),
     Reply(200, TRUE, {}), Reply(200, TRUE, {0}), Reply(200, TRUE, {1}),
     Reply(200, TRUE, {2})}

\* health_data.get("checks", {}).get("active_bots", 0)
active_bots(r) ==
    IF r.active_bots = {} THEN 0 ELSE CHOOSE n \in r.active_bots : TRUE

first_poll_GivesUp(r) ==
    IF r.error THEN "False"
    ELSE IF r.status_code # 200 THEN "False"
    ELSE IF ~r.json THEN "False"
    ELSE IF active_bots(r) > 0 THEN "True"
    ELSE "False"

\* lines 280-301 and 324-326: the first poll of _test_nova_sonic_connection
first_poll(r) ==
    IF r.error THEN "False"
    ELSE IF r.status_code # 200 THEN "False"
    ELSE IF ~r.json THEN "False"
    ELSE IF active_bots(r) > 0 THEN "True"
    ELSE "again"

\* lines 303-326: the poll after the wait
final_poll(r) ==
    IF r.error THEN FALSE
    ELSE IF r.status_code = 200
         THEN IF ~r.json THEN FALSE ELSE active_bots(r) > 0
         ELSE FALSE

\* lines 57-64
ServiceHealth ==
    /\ journey.pc = "service_health"
    /\ \E health_success \in BOOLEAN :
           journey' = [set_step(journey, "service_health", health_success)
                          EXCEPT !.pc = IF health_success THEN "browser_access"
                                        ELSE "returned"]
    /\ UNCHANGED <<server, runner, validator>>

\* lines 66-70
BrowserAccess ==
    /\ journey.pc = "browser_access"
    /\ \E browser_success \in BOOLEAN :
           journey' = [set_step(journey, "browser_access", browser_success)
                          EXCEPT !.pc = "rtvi_connection"]
    /\ UNCHANGED <<server, runner, validator>>

RtviConnection_NoGate ==
    /\ journey.pc = "rtvi_connection"
    /\ \E rtvi_success \in BOOLEAN :
           journey' = [set_step(journey, "rtvi_connection", rtvi_success)
                          EXCEPT !.pc = "wait"]
    /\ UNCHANGED <<server, runner, validator>>

\* lines 72-83
RtviConnection ==
    /\ journey.pc = "rtvi_connection"
    /\ \E rtvi_success \in BOOLEAN :
           journey' = [set_step(journey, "rtvi_connection", rtvi_success)
                          EXCEPT !.pc = IF rtvi_success THEN "wait"
                                        ELSE "returned"]
    /\ UNCHANGED <<server, runner, validator>>

\* lines 93-95: one round of the wait for the agent
JourneyWait ==
    /\ journey.pc = "wait"
    /\ journey' = [journey EXCEPT
                      !.waited = @ + 1,
                      !.pc = IF journey.waited + 1 = WaitRounds
                             THEN "nova_sonic" ELSE "wait"]
    /\ UNCHANGED <<server, runner, validator>>

\* the step of test_complete_user_journey that receives the check's result
nova_sonic_ready(j, ok) ==
    [set_step(j, "nova_sonic_ready", ok) EXCEPT !.pc = "function_calling"]

\* lines 99-100 with 280-299
NovaFirstPoll ==
    /\ journey.pc = "nova_sonic"
    /\ \E r \in HealthReplies :
           LET polled == [journey EXCEPT !.polls = Append(@, r)]
           IN  journey' = IF first_poll(r) = "again"
                          THEN [polled EXCEPT !.pc = "nova_sleep"]
                          ELSE nova_sonic_ready(polled, first_poll(r) = "True")
    /\ UNCHANGED <<server, runner, validator>>

\* line 301
NovaSleep ==
    /\ journey.pc = "nova_sleep"
    /\ journey' = [journey EXCEPT !.slept = @ + 1, !.pc = "nova_final"]
    /\ UNCHANGED <<server, runner, validator>>

\* lines 303-322
NovaFinalPoll ==
    /\ journey.pc = "nova_final"
    /\ \E r \in HealthReplies :
           journey' = nova_sonic_ready([journey EXCEPT !.polls = Append(@, r)],
                                       final_poll(r))
    /\ UNCHANGED <<server, runner, validator>>

\* lines 102-105
FunctionCalling ==
    /\ journey.pc = "function_calling"
    /\ \E function_calling_success \in BOOLEAN :
           journey' = [set_step(journey, "function_calling", function_calling_success)
                          EXCEPT !.pc = "concurrent_access"]
    /\ UNCHANGED <<server, runner, validator>>

\* lines 107-110
ConcurrentAccess ==
    /\ journey.pc = "concurrent_access"
    /\ \E concurrent_success \in BOOLEAN :
           journey' = [set_step(journey, "concurrent_access", concurrent_success)
                          EXCEPT !.pc = "summary"]
    /\ UNCHANGED <<server, runner, validator>>

\* lines 112-194
JourneySummary ==
    /\ journey.pc = "summary"
    /\ journey' = [journey EXCEPT
                      !.overall_success = overall_success(journey.steps),
                      !.pc = "returned"]
    /\ UNCHANGED <<server, runner, validator>>

\* lines 391-397
JourneyExit ==
    /\ journey.pc = "returned"
    /\ journey' = [journey EXCEPT
                      !.exit_code = {IF journey.overall_success THEN 0 ELSE 1},
                      !.pc = "exited"]
    /\ UNCHANGED <<server, runner, validator>>

JourneyNext ==
    \/ ServiceHealth
    \/ BrowserAccess
    \/ RtviConnection
    \/ JourneyWait
    \/ NovaFirstPoll
    \/ NovaSleep
    \/ NovaFinalPoll
    \/ FunctionCalling
    \/ ConcurrentAccess
    \/ JourneySummary
    \/ JourneyExit

JourneySpec == ProgramInit /\ [][JourneyNext]_vars

----------------------------------------------------------------------------
(* src/tests/test-end-to-end.py: the end-to-end validator *)

\* sub in s
Contains(s, sub) ==
    \E i \in 1..(Len(s) - Len(sub) + 1) : SubSeq(s, i, i + Len(sub) - 1) = sub

DailyCo == <<"d", "a", "i", "l", "y", ".", "c", "o">>

RoomUrl == <<"x", ".">> \o DailyCo \o <<"/", "r">>

OtherUrl == <<"e", "x", ".", "i", "o">>

\* one call of log_test_result
Log(name, success, details) ==
    [name |-> name, success |-> success, details |-> details]

\* lines 47-53: self.test_results[test_name] = {...}
log_test_result(test_results, e) ==
    IF \E i \in 1..Len(test_results) : test_results[i].name = e.name
    THEN [i \in 1..Len(test_results) |->
             IF test_results[i].name = e.name THEN e ELSE test_results[i]]
    ELSE Append(test_results, e)

\* what a test method did: its calls of log_test_result and what it returned
Outcome(logs, ret, room_url) == [logs |-> logs, ret |-> ret, room_url |-> room_url]

Passes(name, details, room_url) ==
    Outcome(<<Log(name, TRUE, details)>>, TRUE, room_url)

Fails(name, details) == Outcome(<<Log(name, FALSE, details)>>, FALSE, None)

\* replies to GET /health
required_fields == {"status", "timestamp", "service", "checks"}

Health(status_code, json, fields, status, daily_helper, bots) ==
    [error |-> FALSE, status_code |-> status_code, json |-> json,
     fields |-> fields, status |-> status, daily_helper |-> daily_helper,
     active_bots |-> bots]

HealthResponses ==
    {[error |-> TRUE, status_code |-> 0, json |-> FALSE, fields |-> {},
      status |-> "", daily_helper |-> "", active_bots |-> {}],
     Health(503, TRUE, {}, "", "", {}),
     Health(200, FALSE, {}, "", "", {}),
     Health(200, TRUE, required_fields \ {"checks"}, "healthy", "", {}),
     Health(200, TRUE, required_fields, "degraded", "ok", {0}),
     Health(200, TRUE, required_fields, "healthy", "error", {0}),
     Health(200, TRUE, required_fields, "healthy", "ok", {0}),
     Health(200, TRUE, required_fields, "healthy", "ok", {1})}

\* lines 56-120
test_health_endpoint(r) ==
    IF r.error THEN Fails("health_endpoint", "Health check failed")
    ELSE IF r.status_code = 200
    THEN IF ~r.json THEN Fails("health_endpoint", "Health check failed")
         ELSE IF required_fields \ r.fields # {}
              THEN Fails("health_endpoint", "Missing fields in health response")
         ELSE IF r.status # "healthy"
              THEN Fails("health_endpoint", "Service not healthy")
         ELSE IF r.daily_helper # "ok"
              THEN Fails("health_endpoint", "Daily helper check failed")
         ELSE Passes("health_endpoint", "Health check passed", None)
    ELSE Fails("health_endpoint", "Health endpoint returned")

\* replies to GET /ready
Ready(status_code, json, status) ==
    [error |-> FALSE, status_code |-> status_code, json |-> json, status |-> status]

ReadyResponses ==
    {[error |-> TRUE, status_code |-> 0, json |-> FALSE, status |-> ""],
     Ready(503, TRUE, ""), Ready(200, FALSE, ""),
     Ready(200, TRUE, "starting"), Ready(200, TRUE, "ready")}

\* lines 122-156
test_readiness_endpoint(r) ==
    IF r.error THEN Fails("readiness_endpoint", "Readiness check failed")
    ELSE IF r.status_code = 200
    THEN IF ~r.json THEN Fails("readiness_endpoint", "Readiness check failed")
         ELSE IF r.status # "ready"
              THEN Fails("readiness_endpoint", "Service not ready")
         ELSE Passes("readiness_endpoint", "Readiness check passed", None)
    ELSE Fails("readiness_endpoint", "Readiness endpoint returned")

\* replies to GET / without following redirects
Root(status_code, location) ==
    [error |-> FALSE, status_code |-> status_code, location |-> location]

RootResponses ==
    {[error |-> TRUE, status_code |-> 0, location |-> None],
     Root(200, None), Root(307, None), Root(307, Some(<<>>)),
     Root(307, Some(OtherUrl)), Root(307, Some(RoomUrl))}

\* lines 158-196
test_daily_room_creation(r) ==
    IF r.error THEN Fails("daily_room_creation", "Room creation failed")
    ELSE IF r.status_code = 307
    THEN IF Truthy(r.location) /\ Contains(r.location.v, DailyCo)
         THEN Passes("daily_room_creation", "Daily room created successfully",
                     r.location)
         ELSE Fails("daily_room_creation", "Invalid redirect URL")
    ELSE Fails("daily_room_creation", "Expected redirect (307)")

\* replies to POST /connect; token is the set holding the token's length,
\* empty for a null token
ConnectDown ==
    [error |-> TRUE, status_code |-> 0, json |-> FALSE, fields |-> {},
     room_url |-> None, token |-> {}]

Connect(status_code, json, fields, room_url, token) ==
    [error |-> FALSE, status_code |-> status_code, json |-> json,
     fields |-> fields, room_url |-> room_url, token |-> token]

Connected(room_url, token) ==
    Connect(200, TRUE, {"room_url", "token"}, room_url, token)

ConnectResponses ==
    {ConnectDown,
     Connect(500, TRUE, {}, None, {}),
     Connect(200, FALSE, {}, None, {}),
     Connect(200, TRUE, {"room_url"}, Some(RoomUrl), {}),
     Connected(None, {200}),
     Connected(Some(OtherUrl), {200}),
     Connected(Some(RoomUrl), {}),
     Connected(Some(RoomUrl), {0}),
     Connected(Some(RoomUrl), {49}),
     Connected(Some(RoomUrl), {50})}

\* lines 198-264
test_rtvi_connect_endpoint(r) ==
    IF r.error THEN Fails("rtvi_connect", "RTVI connect failed")
    ELSE IF r.status_code = 200
    THEN IF ~r.json THEN Fails("rtvi_connect", "RTVI connect failed")
         ELSE IF {"room_url", "token"} \ r.fields # {}
              THEN Fails("rtvi_connect", "Missing fields in connect response")
         ELSE IF ~Truthy(r.room_url) \/ ~Contains(r.room_url.v, DailyCo)
              THEN Fails("rtvi_connect", "Invalid room URL")
         ELSE IF \A n \in r.token : n < 50
              THEN Fails("rtvi_connect", "Invalid token format")
         ELSE Passes("rtvi_connect", "RTVI connect successful", r.room_url)
    ELSE Fails("rtvi_connect", "Connect endpoint returned")

\* replies to GET room_url
Page(status_code, u, text) ==
    [error |-> FALSE, status_code |-> status_code, url |-> u, text |-> text]

PageResponses ==
    {[error |-> TRUE, status_code |-> 0, url |-> <<>>, text |-> <<>>],
     Page(404, RoomUrl, <<"n", "o">>),
     Page(200, OtherUrl, <<"R", "o", "o", "m">>),
     Page(200, RoomUrl, <<"n", "o">>),
     Page(200, RoomUrl, <<"R", "o", "o", "m">>)}

\* lines 266-313
test_daily_room_accessibility(room_url, r) ==
    IF r.error
    THEN Fails("daily_room_accessibility", "Room accessibility test failed")
    ELSE IF r.status_code = 200
    THEN IF /\ Contains(r.url, DailyCo)
            /\ \/ Contains(Lower(r.text), <<"r", "o", "o", "m">>)
               \/ Contains(Lower(r.text), <<"d", "a", "i", "l", "y">>)
         THEN Passes("daily_room_accessibility", "Daily room accessible", None)
         ELSE Fails("daily_room_accessibility",
                    "Room URL doesn't appear to be a valid Daily room")
    ELSE Fails("daily_room_accessibility", "Daily room returned")

\* line 321: range(3)
Attempts == 3

ConcurrentResponses ==
    {ConnectDown, Connect(500, TRUE, {}, None, {}),
     Connect(200, FALSE, {}, None, {}), Connected(Some(RoomUrl), {}),
     Connected(Some(RoomUrl), {50})}

\* lines 322-338: one attempt is a success unless the request, the status,
\* the body or len() of a null token fails
attempt_succeeds(r) ==
    /\ ~r.error /\ r.status_code = 200 /\ r.json
    /\ "token" \in r.fields => r.token # {}

\* lines 315-367
test_concurrent_connections(rs) ==
    LET successful_connections ==
            Cardinality({i \in 1..Attempts : attempt_succeeds(rs[i])})
    IN  IF successful_connections >= 2
        THEN Passes("concurrent_connections",
                    "Concurrent connections successful", None)
        ELSE Fails("concurrent_connections",
                   "Insufficient concurrent connections")

\* lines 369-421
test_bot_process_tracking(response_, health_response) ==
    IF response_.error
    THEN Fails("bot_process_tracking", "Bot process tracking test failed")
    ELSE IF response_.status_code # 200
    THEN Fails("bot_process_tracking",
               "Failed to create connection for bot tracking test")
    ELSE IF health_response.error
    THEN Fails("bot_process_tracking", "Bot process tracking test failed")
    ELSE IF health_response.status_code = 200
    THEN IF ~health_response.json
         THEN Fails("bot_process_tracking", "Bot process tracking test failed")
         ELSE IF active_bots(health_response) > 0
              THEN Passes("bot_process_tracking",
                          "Bot process tracking working", None)
              ELSE Fails("bot_process_tracking",
                         "No active bots detected in health check")
    ELSE Fails("bot_process_tracking",
               "Health check failed during bot tracking test")

RECURSIVE log_all(_, _)
\* the calls of log_test_result a test method made, in order
log_all(test_results, logs) ==
    IF logs = <<>> THEN test_results
    ELSE log_all(log_test_result(test_results, Head(logs)), Tail(logs))

\* the validator after a test method that did o; line 54 logs every call
ran(v, o) ==
    [v EXCEPT !.test_results = log_all(@, o.logs), !.logged = @ \o o.logs]

\* lines 432-434
TestHealthEndpoint ==
    /\ validator.pc = "health_endpoint"
    /\ \E r \in HealthResponses :
           LET o == test_health_endpoint(r)
           IN  validator' = [ran(validator, o) EXCEPT
                                !.health_ok = o.ret,
                                !.pc = "readiness_endpoint"]
    /\ UNCHANGED <<server, runner, journey>>

\* lines 436-438
TestReadinessEndpoint ==
    /\ validator.pc = "readiness_endpoint"
    /\ \E r \in ReadyResponses :
           LET o == test_readiness_endpoint(r)
           IN  validator' = [ran(validator, o) EXCEPT
                                !.ready_ok = o.ret,
                                !.pc = "daily_room_creation"]
    /\ UNCHANGED <<server, runner, journey>>

\* lines 440-442
TestDailyRoomCreation ==
    /\ validator.pc = "daily_room_creation"
    /\ \E r \in RootResponses :
           LET o == test_daily_room_creation(r)
           IN  validator' = [ran(validator, o) EXCEPT
                                !.room_created = o.ret,
                                !.room_url = o.room_url,
                                !.pc = "rtvi_connect"]
    /\ UNCHANGED <<server, runner, journey>>

\* lines 444-449
TestRtviConnectEndpoint ==
    /\ validator.pc = "rtvi_connect"
    /\ \E r \in ConnectResponses :
           LET o == test_rtvi_connect_endpoint(r)
           IN  validator' = [ran(validator, o) EXCEPT
                                !.rtvi_ok = o.ret,
                                !.room_accessible = FALSE,
                                !.pc = "daily_room_accessibility"]
    /\ UNCHANGED <<server, runner, journey>>

\* lines 450-452
TestDailyRoomAccessibility ==
    /\ validator.pc = "daily_room_accessibility"
    /\ Truthy(validator.room_url)
    /\ \E r \in PageResponses :
           LET o == test_daily_room_accessibility(validator.room_url, r)
           IN  validator' = [ran(validator, o) EXCEPT
                                !.room_accessible = o.ret,
                                !.pc = "concurrent_connections"]
    /\ UNCHANGED <<server, runner, journey>>

NoRoomUrl_Silent ==
    /\ validator.pc = "daily_room_accessibility"
    /\ ~Truthy(validator.room_url)
    /\ validator' = [validator EXCEPT !.pc = "concurrent_connections"]
    /\ UNCHANGED <<server, runner, journey>>

\* lines 453-456
NoRoomUrl ==
    /\ validator.pc = "daily_room_accessibility"
    /\ ~Truthy(validator.room_url)
    /\ validator' =
           [ran(validator, Fails("daily_room_accessibility",
                                 "No room URL available for testing"))
               EXCEPT !.pc = "concurrent_connections"]
    /\ UNCHANGED <<server, runner, journey>>

\* lines 458-460
TestConcurrentConnections ==
    /\ validator.pc = "concurrent_connections"
    /\ \E rs \in [1..Attempts -> ConcurrentResponses] :
           LET o == test_concurrent_connections(rs)
           IN  validator' = [ran(validator, o) EXCEPT
                                !.concurrent_ok = o.ret,
                                !.pc = "bot_process_tracking"]
    /\ UNCHANGED <<server, runner, journey>>

\* lines 462-464
TestBotProcessTracking ==
    /\ validator.pc = "bot_process_tracking"
    /\ \E response_ \in ConnectResponses : \E health_response \in HealthResponses :
           LET o == test_bot_process_tracking(response_, health_response)
           IN  validator' = [ran(validator, o) EXCEPT
                                !.bot_tracking_ok = o.ret,
                                !.pc = "summary"]
    /\ UNCHANGED <<server, runner, journey>>

\* lines 491-511: all([req_5_1, req_5_2, req_5_3, req_5_4])
all_requirements(v) ==
    /\ v.health_ok /\ v.ready_ok /\ v.room_created
    /\ v.health_ok /\ v.room_created
    /\ v.health_ok /\ v.room_created
    /\ v.bot_tracking_ok /\ v.concurrent_ok

\* lines 466-534
ValidatorSummary ==
    /\ validator.pc = "summary"
    /\ validator' = [validator EXCEPT
                        !.overall_success = all_requirements(validator),
                        !.pc = "returned"]
    /\ UNCHANGED <<server, runner, journey>>

\* lines 537-543
ValidatorExit ==
    /\ validator.pc = "returned"
    /\ validator' = [validator EXCEPT
                        !.exit_code = {IF validator.overall_success THEN 0 ELSE 1},
                        !.pc = "exited"]
    /\ UNCHANGED <<server, runner, journey>>

ValidatorNext ==
    \/ TestHealthEndpoint
    \/ TestReadinessEndpoint
    \/ TestDailyRoomCreation
    \/ TestRtviConnectEndpoint
    \/ TestDailyRoomAccessibility
    \/ NoRoomUrl
    \/ TestConcurrentConnections
    \/ TestBotProcessTracking
    \/ ValidatorSummary
    \/ ValidatorExit

ValidatorSpec == ProgramInit /\ [][ValidatorNext]_vars

----------------------------------------------------------------------------
(* Claims about the control endpoint, checked under Spec *)

Served == response.endpoint = "/incoming-call"

Configured == Truthy(TWILIO_AUTH_TOKEN)

Accepted == Served /\ response.status = 200

\* the signature the carrier would attach to this very request
ExpectedSignature(req) ==
    Encode(Digest(Digest(7, TWILIO_AUTH_TOKEN.v), url(req) \o req.body))

SignatureValid == SignatureHeader(request) = ExpectedSignature(request)

Verbs(doc, v) == {i \in 1..Len(doc) : doc[i].verb = v}

\* C1: with a secret configured, a request whose signature is missing or does
\* not validate is answered 403 with an empty body and no control document.
C1_InvalidSignatureForbidden ==
    (Served /\ Configured /\ ~SignatureValid) =>
        /\ response.status = 403
        /\ response.doc = <<>>
        /\ response.media_type = ""
        /\ response.json = NoHealth

C1_Witness ==
    /\ Served /\ Configured
    /\ request.signature = Some(BadSignature)
    /\ response.status = 403

\* C2: with no secret configured every request validates, whatever its URL,
\* body and signature header, and is answered with a control document.
C2_NoSecretAcceptsAll ==
    (Served /\ ~Configured) =>
        /\ validate_twilio_request(TWILIO_AUTH_TOKEN, request)
        /\ response.status = 200
        /\ response.media_type = "application/xml"
        /\ response.doc # <<>>

C2_Witness ==
    /\ Served /\ ~Configured
    /\ request.signature = Some(BadSignature)
    /\ request.body # <<>>
    /\ response.status = 200

\* the bodies that differ from b in exactly one byte
OneByteAltered(b) ==
    {b2 \in Bodies : /\ Len(b2) = Len(b)
                     /\ Cardinality({i \in 1..Len(b) : b2[i] # b[i]}) = 1}

\* C3: with a secret configured a request validates iff its signature header
\* equals the keyed digest of the full URL followed by the raw body; a body
\* that differs in one byte from one that validated does not validate.
C3_ValidIffSignatureMatches ==
    (Served /\ Configured) =>
        /\ (response.status = 200) <=> SignatureValid
        /\ (response.status = 403) <=> ~SignatureValid
        /\ response.status = 200 =>
              \A b2 \in OneByteAltered(request.body) :
                  ~validate_twilio_request(TWILIO_AUTH_TOKEN,
                                           [request EXCEPT !.body = b2])

C3_Witness ==
    /\ Served /\ Configured
    /\ response.status = 200
    /\ OneByteAltered(request.body) # {}

\* C4: an accepted request in MediaBridge mode gets, in this order, a speak
\* instruction, one start-streaming instruction to the stream URL and one
\* pause of at most 3600 seconds.
C4_MediaBridgeDocument ==
    (Accepted /\ ~simple_voice(SIMPLE_VOICE_TEST)) =>
        /\ Len(response.doc) = 3
        /\ response.doc[1].verb = "Say"
        /\ response.doc[2].verb = "Start"
        /\ response.doc[2].url = websocket_url(request)
        /\ response.doc[3].verb = "Pause"
        /\ Cardinality(Verbs(response.doc, "Start")) = 1
        /\ Cardinality(Verbs(response.doc, "Pause")) <= 1
        /\ \A i \in Verbs(response.doc, "Pause") : response.doc[i].length <= 3600

C4_Witness ==
    /\ Accepted /\ Configured
    /\ SIMPLE_VOICE_TEST = None
    /\ Verbs(response.doc, "Start") = {2}
    /\ Verbs(response.doc, "Pause") = {3}

\* C5: an accepted request in SimpleVoice mode gets speak instructions only:
\* no start-streaming instruction and no pause.
C5_SimpleVoiceSpeaksOnly ==
    (Accepted /\ simple_voice(SIMPLE_VOICE_TEST)) =>
        /\ response.doc # <<>>
        /\ \A i \in 1..Len(response.doc) : response.doc[i].verb = "Say"
        /\ Verbs(response.doc, "Start") = {}
        /\ Verbs(response.doc, "Pause") = {}

C5_Witness ==
    /\ Accepted /\ Configured /\ SignatureValid
    /\ SIMPLE_VOICE_TEST = Some(<<"T", "R", "U", "E">>)
    /\ Len(response.doc) = 2

\* the streaming-channel scheme of a control-channel scheme
Upgraded(scheme) ==
    IF scheme = <<"h", "t", "t", "p">> THEN <<"w", "s">>
    ELSE IF scheme = <<"h", "t", "t", "p", "s">> THEN <<"w", "s", "s">>
    ELSE scheme

\* C6: in MediaBridge mode the stream URL is the request's own host with the
\* scheme upgraded http -> ws, https -> wss and the streaming path appended.
C6_StreamUrlFromRequestHost ==
    (Accepted /\ ~simple_voice(SIMPLE_VOICE_TEST)) =>
        \A i \in Verbs(response.doc, "Start") :
            response.doc[i].url =
                Upgraded(request.scheme) \o <<":", "/", "/">> \o request.host
                \o <<"/", "m", "e", "d", "i", "a", "-", "s", "t", "r", "e", "a", "m">>

C6_Witness ==
    /\ Accepted /\ ~simple_voice(SIMPLE_VOICE_TEST)
    /\ request.scheme = <<"h", "t", "t", "p">>
    /\ request.host = <<"b", ".", "i", "o">>
    /\ response.doc[2].url = <<"w", "s", ":", "/", "/", "b", ".", "i", "o", "/",
                               "m", "e", "d", "i", "a", "-", "s", "t", "r", "e", "a", "m">>

----------------------------------------------------------------------------
(* Claims about the streaming endpoint, checked under StreamSpec *)

Msgs(entries) == [i \in 1..Len(entries) |-> entries[i].msg]

Payload(ms) == [i \in 1..Len(ms) |-> ms[i].payload]

\* the inbound messages are start, then n media events, then stop
StartMediaStop(ins) ==
    /\ Len(ins) >= 2
    /\ ins[1].wf = "object" /\ ins[1].event = "start"
    /\ ins[Len(ins)].wf = "object" /\ ins[Len(ins)].event = "stop"
    /\ \A i \in 2..(Len(ins) - 1) : ins[i].wf = "object" /\ ins[i].event = "media"

\* C7: a connection that received start, n media events and stop is closed,
\* has passed on exactly the n frames in arrival order, and is no longer
\* among the live sessions.
C7_StartMediaStopCloses ==
    \A c \in DOMAIN conn :
        LET ins == Msgs(Inputs(conn[c]))
            outs == Msgs(Outputs(conn[c]))
        IN  StartMediaStop(ins) =>
                /\ conn[c].pc = "closed"
                /\ conn[c].exit = "stop"
                /\ Len(outs) = Len(ins) - 2
                /\ Payload(outs) = Payload(SubSeq(ins, 2, Len(ins) - 1))
                /\ c \notin LiveSessions

C7_Witness ==
    \E c \in DOMAIN conn :
        /\ StartMediaStop(Msgs(Inputs(conn[c])))
        /\ Payload(Msgs(Outputs(conn[c]))) = <<"p2", "p1">>
        /\ conn[c].pc = "closed"

Last(q) == q[Len(q)]

\* C8: a message that is not parseable JSON does not terminate the session.
C8_MalformedDoesNotTerminate ==
    \A c \in DOMAIN conn :
        (conn[c].log # <<>> /\ Last(conn[c].log) = In(NotJson)) =>
            conn[c].pc = "open"

UnknownEvent(m) == m.wf = "object" /\ m.event \notin KnownEvents

\* C9: a JSON object whose event is missing or none of connected, start,
\* media, stop changes nothing but the record of its arrival: no outbound
\* message, the handler stays in its loop, its state is unchanged.
C9_UnknownEventSkipped ==
    [][\A c \in DOMAIN conn :
          LET n == Len(conn[c].log)
          IN  (Len(conn'[c].log) > n /\ conn'[c].log[n + 1].dir = "in"
                  /\ UnknownEvent(conn'[c].log[n + 1].msg)) =>
              /\ Len(conn'[c].log) = n + 1
              /\ conn'[c].pc = conn[c].pc
              /\ conn'[c].exit = conn[c].exit
              /\ conn'[c].stream_sid = conn[c].stream_sid]_vars

C9_Witness ==
    \E c \in DOMAIN conn :
        /\ Len(conn[c].log) = 4
        /\ conn[c].log[1] = In(Event("mark"))
        /\ conn[c].log[2] = In(Event(Absent))
        /\ conn[c].log[3] = In(MediaEvent("S1", "p1"))
        /\ conn[c].log[4] = Out(MediaEvent("S1", "p1"))
        /\ conn[c].pc = "open"

\* C10: a media event that arrives before any start event is rejected: no
\* frame is sent back before the connection has received a start event.
C10_MediaBeforeStartRejected ==
    \A c \in DOMAIN conn :
        \A i \in 1..Len(conn[c].log) :
            conn[c].log[i].dir = "out" =>
                \E j \in 1..(i - 1) :
                    /\ conn[c].log[j].dir = "in"
                    /\ conn[c].log[j].msg.wf = "object"
                    /\ conn[c].log[j].msg.event = "start"

----------------------------------------------------------------------------
(* Claims about sessions, their identifiers and their frames *)

IsStart(e) == e.dir = "in" /\ e.msg.wf = "object" /\ e.msg.event = "start"

IsMedia(e) == e.dir = "in" /\ e.msg.wf = "object" /\ e.msg.event = "media"

Max(S) == CHOOSE x \in S : \A y \in S : y <= x

\* the identifier recorded from the last start event before position i
SidAt(log, i) ==
    LET starts == {j \in 1..(i - 1) : IsStart(log[j])}
    IN  IF starts = {} THEN "unbound" ELSE log[Max(starts)].msg.startSid

\* C11: every outbound media message of a session that has started is tagged
\* with the identifier recorded from the session's own start event, whatever
\* identifier the inbound events carry.
C11_OutboundTaggedWithOwnSid ==
    \A c \in DOMAIN conn :
        \A i \in 1..Len(conn[c].log) :
            (conn[c].log[i].dir = "out" /\ SidAt(conn[c].log, i) # "unbound") =>
                conn[c].log[i].msg.streamSid = SidAt(conn[c].log, i)

\* C12: a stream identifier belongs to at most one live session.
C12_OneLiveSessionPerSid ==
    \A c \in LiveSessions : \A d \in LiveSessions :
        (c # d /\ conn[c].stream_sid \in Sids) =>
            conn[c].stream_sid # conn[d].stream_sid

\* C13: a start for an identifier that another live session already holds is
\* rejected: the new attempt is aborted, the session that came first untouched.
C13_DuplicateStartRejected ==
    [][\A c \in DOMAIN conn :
          LET n == Len(conn[c].log)
          IN  (/\ Len(conn'[c].log) > n
               /\ IsStart(conn'[c].log[n + 1])
               /\ \E d \in LiveSessions \ {c} :
                      conn[d].stream_sid = conn'[c].log[n + 1].msg.startSid) =>
              /\ conn'[c].pc = "closed"
              /\ \A d \in DOMAIN conn \ {c} : conn'[d] = conn[d]]_vars

\* C14: the connection dropping ends the session as a stop event does: the
\* handler is closed, nothing is received or sent after the drop, and the
\* session is no longer live.
C14_DisconnectCloses ==
    \A c \in DOMAIN conn :
        (\E i \in 1..Len(conn[c].log) : conn[c].log[i] = In(Disconnected)) =>
            /\ Last(conn[c].log) = In(Disconnected)
            /\ conn[c].pc = "closed"
            /\ conn[c].pending = <<>>
            /\ c \notin LiveSessions

C14_Witness ==
    \E c \in DOMAIN conn :
        /\ conn[c].stream_sid = "S1"
        /\ Len(conn[c].log) >= 3
        /\ Last(conn[c].log) = In(Disconnected)
        /\ conn[c].pc = "closed"

\* the session state of a connection
State(s) ==
    CASE s.pc = "idle" -> "None"
      [] s.pc = "closed" -> "Closed"
      [] s.stream_sid = "unbound" -> "Connecting"
      [] OTHER -> "Active"

ListedTransitions ==
    {<<"None", "Connecting">>, <<"Connecting", "Active">>, <<"Active", "Closed">>}

\* C15 as stated: the state moves only along Connecting -> Active ->
\* (Draining ->) Closed, and nothing changes once Closed.
C15_OnlyListedTransitions ==
    [][\A c \in DOMAIN conn :
          /\ State(conn'[c]) # State(conn[c]) =>
                <<State(conn[c]), State(conn'[c])>> \in ListedTransitions
          /\ State(conn[c]) = "Closed" => conn'[c] = conn[c]]_vars

\* C15 amended: as above, but a connection that ends before any start event
\* goes from Connecting straight to Closed.
C15_ForwardTransitions ==
    [][\A c \in DOMAIN conn :
          /\ State(conn'[c]) # State(conn[c]) =>
                <<State(conn[c]), State(conn'[c])>> \in
                    ListedTransitions \cup {<<"Connecting", "Closed">>}
          /\ State(conn[c]) = "Closed" => conn'[c] = conn[c]]_vars

C15_Witness ==
    \E c \in DOMAIN conn :
        /\ State(conn[c]) = "Closed"
        /\ conn[c].exit = "stop"
        /\ conn[c].stream_sid = "unbound"
        /\ Len(Outputs(conn[c])) >= 1

\* C16: when a stop event ends the session, every frame accepted before it
\* has been sent: none is pending, none was dropped.
C16_StopAfterAllSent ==
    \A c \in DOMAIN conn :
        conn[c].exit = "stop" =>
            /\ conn[c].pending = <<>>
            /\ Payload(Msgs(Outputs(conn[c]))) =
                   Payload(Msgs(SelectSeq(conn[c].log, IsMedia)))

C16_Witness ==
    \E c \in DOMAIN conn :
        /\ conn[c].exit = "stop"
        /\ Len(Outputs(conn[c])) >= 2
        /\ Len(Inputs(conn[c])) = Len(Outputs(conn[c])) + 1

\* C17: at most one frame is accepted and not yet sent; while it is unsent
\* the handler receives nothing.
C17_PendingBounded ==
    \A c \in DOMAIN conn :
        /\ Len(conn[c].pending) <= 1
        /\ conn[c].pending # <<>> <=> conn[c].pc = "sending"
        /\ conn[c].pc = "sending" => ~ENABLED ReceiveStep(c)

C17_Witness ==
    \E c \in DOMAIN conn :
        /\ conn[c].pc = "sending"
        /\ Len(conn[c].pending) = 1
        /\ Len(Outputs(conn[c])) >= 1

\* C18: every frame sent on a connection answers a media event received on
\* that same connection.
C18_FramesStayOnTheirConnection ==
    \A c \in DOMAIN conn :
        LET log == conn[c].log
        IN  /\ Len(Outputs(conn[c])) + Len(conn[c].pending)
                   <= Len(SelectSeq(log, IsMedia))
            /\ \A i \in 1..Len(log) :
                   log[i].dir = "out" =>
                       /\ i > 1
                       /\ IsMedia(log[i - 1])
                       /\ log[i - 1].msg.payload = log[i].msg.payload

C18_Witness ==
    /\ Payload(Msgs(Outputs(conn["c1"]))) = <<"p1">>
    /\ Payload(Msgs(Outputs(conn["c2"]))) = <<"p2">>

\* C19: when one session ends in an error no other session changes, and the
\* HTTP endpoints answer whatever has happened to the sessions.
C19_ErrorsStayInTheirSession ==
    [][/\ \A c \in DOMAIN conn :
             (conn'[c].exit = "error" /\ conn[c].exit # "error") =>
                 /\ \A d \in DOMAIN conn \ {c} : conn'[d] = conn[d]
                 /\ UNCHANGED <<config, request, response>>
       /\ response' # response =>
             /\ response'.status = 200
             /\ UNCHANGED conn]_vars

C19_Witness ==
    /\ conn["c1"].exit = "error"
    /\ Last(conn["c1"].log) = In(NotJson)
    /\ conn["c2"].pc = "open"
    /\ Len(Outputs(conn["c2"])) = 1
    /\ response.endpoint = "/health"
    /\ response.status = 200

\* C20: GET /health answers status healthy, the configured flag and the phone
\* number; the flag is true exactly when the secret and the phone number are
\* both set; answering changes neither configuration nor sessions.
C20_HealthReportsConfiguration ==
    [][(response'.endpoint = "/health" /\ response.endpoint # "/health") =>
          /\ response'.status = 200
          /\ response'.json.status = "healthy"
          /\ response'.json.twilio_configured =
                 (Truthy(TWILIO_AUTH_TOKEN) /\ Truthy(TWILIO_PHONE_NUMBER))
          /\ response'.json.phone_number = TWILIO_PHONE_NUMBER
          /\ UNCHANGED <<config, conn>>]_vars

C20_Witness ==
    /\ response.endpoint = "/health"
    /\ Truthy(TWILIO_AUTH_TOKEN)
    /\ ~Truthy(TWILIO_PHONE_NUMBER)
    /\ response.json.twilio_configured = FALSE

----------------------------------------------------------------------------
(* Claims about validation, the choice of document and the echo *)

\* C21: validating a request changes no server state (no configuration
\* value, no session), and its outcome is a function of the secret, the url,
\* the body and the signature header alone.
C21_ValidationPureAndStateless ==
    [][(Served' /\ ~Served) =>
          /\ UNCHANGED <<config, conn>>
          /\ Accepted' <=>
                 \/ ~Truthy(TWILIO_AUTH_TOKEN)
                 \/ SignatureHeader(request') = ExpectedSignature(request')]_vars

C21_Witness ==
    /\ Accepted /\ Configured /\ SignatureValid
    /\ Truthy(TWILIO_PHONE_NUMBER)
    /\ request.body # <<>>
    /\ conn = NoConns

\* C22: a request accepted because no secret is configured has had the
\* warning that validation is skipped printed before it was accepted.
C22_PermissiveAcceptanceWarned ==
    (Accepted /\ ~Configured) =>
        \E i \in 1..Len(stdout) : \E j \in 1..Len(stdout) :
            /\ i < j
            /\ stdout[i] = "skipping validation"
            /\ stdout[j] = "TwiML response generated"

C22_Witness ==
    /\ Accepted
    /\ TWILIO_AUTH_TOKEN = Some(<<>>)
    /\ request.signature = None
    /\ stdout = <<"Incoming call received", "skipping validation",
                  "TwiML response generated">>

\* the flag is set and reads "true" whatever the case of its letters
TrueIgnoringCase(flag) ==
    /\ flag.some
    /\ Len(flag.v) = 4
    /\ flag.v[1] \in {"t", "T"}
    /\ flag.v[2] \in {"r", "R"}
    /\ flag.v[3] \in {"u", "U"}
    /\ flag.v[4] \in {"e", "E"}

\* the document speaks only
IsSimpleVoice(doc) ==
    doc # <<>> /\ \A i \in 1..Len(doc) : doc[i].verb = "Say"

\* the document starts a stream and keeps the call open
IsMediaBridge(doc) ==
    Verbs(doc, "Start") # {} /\ Verbs(doc, "Pause") # {}

\* C23: the document of an accepted request is SimpleVoice exactly when the
\* flag reads "true" ignoring case and MediaBridge otherwise (unset
\* included), whatever the request's body and signature.
C23_ModeFromFlagAlone ==
    Accepted =>
        /\ IsSimpleVoice(response.doc) <=> TrueIgnoringCase(SIMPLE_VOICE_TEST)
        /\ IsMediaBridge(response.doc) <=> ~TrueIgnoringCase(SIMPLE_VOICE_TEST)

C23_Witness ==
    /\ Accepted /\ Configured
    /\ SIMPLE_VOICE_TEST = Some(<<"T", "r", "u", "e">>)
    /\ request.body # <<>>
    /\ IsSimpleVoice(response.doc)

\* C24: on a connection every outbound message is the echo of the media
\* event received just before it, with the same payload, and a media event
\* is followed by its echo before anything else is received; connected,
\* start and stop events are followed by no outbound message. A media event
\* with no echo is either still being sent or ended the handler on error.
C24_MediaEchoedInOrder ==
    \A c \in DOMAIN conn :
        LET log == conn[c].log
        IN  /\ \A i \in 1..Len(log) :
                   log[i].dir = "out" =>
                       /\ i > 1
                       /\ IsMedia(log[i - 1])
                       /\ log[i].msg.event = "media"
                       /\ log[i].msg.payload = log[i - 1].msg.payload
            /\ \A i \in 1..(Len(log) - 1) :
                   IsMedia(log[i]) => log[i + 1].dir = "out"
            /\ (log # <<>> /\ IsMedia(Last(log))) =>
                   conn[c].pc = "sending" \/ conn[c].exit = "error"

C24_Witness ==
    \E c \in DOMAIN conn :
        /\ Len(conn[c].log) = 6
        /\ IsStart(conn[c].log[1])
        /\ Payload(Msgs(Outputs(conn[c]))) = <<"p1", "p2">>
        /\ conn[c].log[6] = In(Event("stop"))

\* C25: a frame whose send fails ends the session at once: the handler is
\* Closed, receives and sends nothing more, and holds no unsent frame.
C25_SendFailureCloses ==
    \A c \in DOMAIN conn :
        (/\ conn[c].log # <<>>
         /\ IsMedia(Last(conn[c].log))
         /\ conn[c].pc # "sending") =>
            /\ State(conn[c]) = "Closed"
            /\ conn[c].exit = "error"
            /\ conn[c].pending = <<>>
            /\ ~ENABLED ReceiveStep(c)
            /\ ~ENABLED Send(c)
            /\ c \notin LiveSessions

C25_Witness ==
    \E c \in DOMAIN conn :
        /\ conn[c].stream_sid = "S1"
        /\ Len(Outputs(conn[c])) >= 1
        /\ IsMedia(Last(conn[c].log))
        /\ conn[c].pc = "closed"
        /\ conn[c].exit = "error"

----------------------------------------------------------------------------
(* Claims about the test runner, checked under RunnerSpec *)

\* C26: the runner records one result per configured test file, in the
\* configured order; whatever a test does (fails, times out, is missing)
\* the next one is run, and the runner exits with five results.
C26_FiveResultsInOrder ==
    /\ Len(runner.results) <= 5
    /\ \A i \in 1..Len(runner.results) : runner.results[i].test = test_files[i]
    /\ (runner.pc = "loop" /\ Len(runner.results) < 5) => ENABLED RunnerLoop
    /\ runner.pc = "exited" => Len(runner.results) = 5

C26_Witness ==
    /\ runner.pc = "exited"
    /\ Len(runner.results) = 5
    /\ runner.results[1].output = "File not found"
    /\ runner.results[2].output = "Test timed out after 5 minutes"
    /\ runner.results[3].output = "stderr"
    /\ runner.results[4].output = "str(e)"
    /\ runner.results[5].success

\* the test's process was started and returned 0 within 300 seconds
Succeeds(f) ==
    f.exists /\ f.starts /\ f.seconds <= 300 /\ f.returncode = 0

\* C27: every test met has a result, successful exactly when its process
\* returned 0 within the timeout (a missing file, a timeout and a launch
\* error are failures, never an exception out of run_test); the runner
\* exits with 0 if all five succeeded and with 1 otherwise.
C27_ExitZeroIffAllSucceeded ==
    /\ Len(runner.results) = Len(runner.env)
    /\ \A i \in 1..Len(runner.results) :
           runner.results[i].success <=> Succeeds(runner.env[i])
    /\ runner.pc = "exited" =>
           /\ Len(runner.env) = 5
           /\ runner.exit_code =
                  {IF \A i \in 1..5 : Succeeds(runner.env[i]) THEN 0 ELSE 1}

C27_Witness ==
    /\ runner.pc = "exited"
    /\ runner.exit_code = {1}
    /\ \A i \in 1..4 : runner.results[i].success
    /\ runner.env[5] = Process(timeout + 1, 0)

----------------------------------------------------------------------------
(* Claims about the user-journey validation, checked under JourneySpec *)

StepOrder ==
    <<"service_health", "browser_access", "rtvi_connection",
      "nova_sonic_ready", "function_calling", "concurrent_access">>

JourneyOver == journey.pc \in {"returned", "exited"}

\* C28: the steps run in the fixed order; a failed service-health step or a
\* failed RTVI-connection step is the last step run (no wait, no poll), with
\* overall_success false; a journey run to the end has overall_success true
\* exactly when service_health, rtvi_connection and nova_sonic_ready passed,
\* whatever the other three steps did; the exit code is 0 exactly when
\* overall_success is true.
C28_JourneyGatesAndVerdict ==
    LET steps == journey.steps
    IN  /\ Len(steps) <= 6
        /\ \A i \in 1..Len(steps) : steps[i].step = StepOrder[i]
        /\ (Len(steps) >= 1 /\ ~steps[1].ok) =>
               /\ Len(steps) = 1 /\ JourneyOver
               /\ journey.waited = 0 /\ journey.polls = <<>>
               /\ ~journey.overall_success
        /\ (Len(steps) >= 3 /\ ~steps[3].ok) =>
               /\ Len(steps) = 3 /\ JourneyOver
               /\ journey.waited = 0 /\ journey.polls = <<>>
               /\ ~journey.overall_success
        /\ JourneyOver => Len(steps) \in {1, 3, 6}
        /\ (JourneyOver /\ Len(steps) = 6) =>
               (journey.overall_success <=>
                    steps[1].ok /\ steps[3].ok /\ steps[4].ok)
        /\ journey.pc = "exited" =>
               journey.exit_code = {IF journey.overall_success THEN 0 ELSE 1}

C28_Witness ==
    /\ journey.pc = "exited"
    /\ journey.exit_code = {0}
    /\ Len(journey.steps) = 6
    /\ ~journey.steps[2].ok /\ ~journey.steps[5].ok /\ ~journey.steps[6].ok

\* the reply reports at least one active bot
ReportsBots(r) ==
    /\ ~r.error /\ r.status_code = 200 /\ r.json
    /\ \E n \in r.active_bots : n > 0

\* the reply is a good one that reports no active bot
ReportsNone(r) ==
    /\ ~r.error /\ r.status_code = 200 /\ r.json
    /\ \A n \in r.active_bots : n = 0

InAgentCheck == journey.pc \in {"nova_sonic", "nova_sleep", "nova_final"}

\* C30: the agent-readiness check makes at most two health polls and one
\* wait and always has a next step until it returns; it polls a second time
\* exactly when the first poll reported no active bot, after one wait; its
\* result is true exactly when the last poll made reported an active bot.
C30_AgentCheckTwoPolls ==
    LET polls == journey.polls
        done == Len(journey.steps) >= 4
    IN  /\ Len(polls) <= 2
        /\ journey.slept <= 1
        /\ InAgentCheck => ENABLED (NovaFirstPoll \/ NovaSleep \/ NovaFinalPoll)
        /\ Len(polls) = 2 => ReportsNone(polls[1]) /\ journey.slept = 1
        /\ done =>
               /\ Len(polls) \in {1, 2}
               /\ Len(polls) = 2 <=> ReportsNone(polls[1])
               /\ journey.steps[4].ok <=> ReportsBots(polls[Len(polls)])

C30_Witness ==
    /\ Len(journey.steps) >= 4
    /\ journey.steps[4].ok
    /\ journey.polls = <<Reply(200, TRUE, {}), Reply(200, TRUE, {2})>>
    /\ journey.slept = 1

----------------------------------------------------------------------------
(* Claims about the end-to-end validator, checked under ValidatorSpec *)

TestNames ==
    <<"health_endpoint", "readiness_endpoint", "daily_room_creation",
      "rtvi_connect", "daily_room_accessibility", "concurrent_connections",
      "bot_process_tracking">>

ValidatorOver == validator.pc \in {"summary", "returned", "exited"}

\* C29: each of the seven tests logs exactly one result, under its own name;
\* test_results holds those results, seven when run_all_tests is over; the
\* logged success is the value the test returned; the accessibility test is
\* recorded as failed when no room URL was obtained; overall_success is true
\* exactly when health, readiness, room creation, concurrent connections and
\* bot tracking passed, whatever RTVI connect and room accessibility did.
C29_SevenResultsAndVerdict ==
    LET tr == validator.test_results
        n == Len(tr)
    IN  /\ validator.logged = tr
        /\ n <= 7
        /\ \A i \in 1..n : tr[i].name = TestNames[i]
        /\ ValidatorOver => n = 7
        /\ n >= 1 => tr[1].success = validator.health_ok
        /\ n >= 2 => tr[2].success = validator.ready_ok
        /\ n >= 3 => tr[3].success = validator.room_created
        /\ n >= 4 => tr[4].success = validator.rtvi_ok
        /\ n >= 5 => /\ tr[5].success = validator.room_accessible
                     /\ ~Truthy(validator.room_url) =>
                            tr[5] = Log("daily_room_accessibility", FALSE,
                                        "No room URL available for testing")
        /\ n >= 6 => tr[6].success = validator.concurrent_ok
        /\ n >= 7 => tr[7].success = validator.bot_tracking_ok
        /\ validator.pc \in {"returned", "exited"} =>
               (validator.overall_success <=>
                    /\ tr[1].success /\ tr[2].success /\ tr[3].success
                    /\ tr[6].success /\ tr[7].success)

C29_Witness ==
    /\ validator.pc = "exited"
    /\ validator.overall_success
    /\ Len(validator.test_results) = 7
    /\ ~validator.test_results[4].success
    /\ ~validator.test_results[5].success

====
